---- MODULE Spec2Model ----
(***************************************************************************)
(* The header-auth worker (src/workers/header-auth-worker/src/index.ts):   *)
(* one request handler with two routes.  /secure reads the                 *)
(* CF_Authorization cookie, decodes the payload segment of the token and   *)
(* renders the claims; /secure/:country reads a flag image from the R2     *)
(* bucket and renders it inline as base64.                                 *)
(*                                                                         *)
(* Text is a sequence of pieces.  A character of request data (a cookie    *)
(* header, a path, a claim value, a base64 digit) is one piece: the        *)
(* character itself when it is printable ASCII (the grave accent, which a  *)
(* string of this language cannot hold, excepted), the name "xHH" of its   *)
(* code unit otherwise.  A run of literal text of a template or of a       *)
(* message of the source is one piece holding the whole run.               *)
(***************************************************************************)
EXTENDS Integers, Sequences, FiniteSets, TLC

(***************************************************************************)
(* Code units 0..255 and their characters (String.fromCharCode,            *)
(* charCodeAt on a binary string).                                         *)
(***************************************************************************)
CharTable ==
  <<
    "x00", "x01", "x02", "x03", "x04", "x05", "x06", "x07",
    "x08", "x09", "x0A", "x0B", "x0C", "x0D", "x0E", "x0F",
    "x10", "x11", "x12", "x13", "x14", "x15", "x16", "x17",
    "x18", "x19", "x1A", "x1B", "x1C", "x1D", "x1E", "x1F",
    " ", "!", "\"", "#", "$", "%", "&", "'",
    "(", ")", "*", "+", ",", "-", ".", "/",
    "0", "1", "2", "3", "4", "5", "6", "7",
    "8", "9", ":", ";", "<", "=", ">", "?",
    "@", "A", "B", "C", "D", "E", "F", "G",
    "H", "I", "J", "K", "L", "M", "N", "O",
    "P", "Q", "R", "S", "T", "U", "V", "W",
    "X", "Y", "Z", "[", "\\", "]", "^", "_",
    "x60", "a", "b", "c", "d", "e", "f", "g",
    "h", "i", "j", "k", "l", "m", "n", "o",
    "p", "q", "r", "s", "t", "u", "v", "w",
    "x", "y", "z", "{", "|", "}", "~", "x7F",
    "x80", "x81", "x82", "x83", "x84", "x85", "x86", "x87",
    "x88", "x89", "x8A", "x8B", "x8C", "x8D", "x8E", "x8F",
    "x90", "x91", "x92", "x93", "x94", "x95", "x96", "x97",
    "x98", "x99", "x9A", "x9B", "x9C", "x9D", "x9E", "x9F",
    "xA0", "xA1", "xA2", "xA3", "xA4", "xA5", "xA6", "xA7",
    "xA8", "xA9", "xAA", "xAB", "xAC", "xAD", "xAE", "xAF",
    "xB0", "xB1", "xB2", "xB3", "xB4", "xB5", "xB6", "xB7",
    "xB8", "xB9", "xBA", "xBB", "xBC", "xBD", "xBE", "xBF",
    "xC0", "xC1", "xC2", "xC3", "xC4", "xC5", "xC6", "xC7",
    "xC8", "xC9", "xCA", "xCB", "xCC", "xCD", "xCE", "xCF",
    "xD0", "xD1", "xD2", "xD3", "xD4", "xD5", "xD6", "xD7",
    "xD8", "xD9", "xDA", "xDB", "xDC", "xDD", "xDE", "xDF",
    "xE0", "xE1", "xE2", "xE3", "xE4", "xE5", "xE6", "xE7",
    "xE8", "xE9", "xEA", "xEB", "xEC", "xED", "xEE", "xEF",
    "xF0", "xF1", "xF2", "xF3", "xF4", "xF5", "xF6", "xF7",
    "xF8", "xF9", "xFA", "xFB", "xFC", "xFD", "xFE", "xFF"
  >>

fromCharCode(code) == CharTable[code + 1]

charCodeAt(ch) == CHOOSE code \in 0..255 : CharTable[code + 1] = ch

UpperLetters ==
  <<"A", "B", "C", "D", "E", "F", "G", "H", "I", "J", "K", "L", "M",
    "N", "O", "P", "Q", "R", "S", "T", "U", "V", "W", "X", "Y", "Z">>

LowerLetters ==
  <<"a", "b", "c", "d", "e", "f", "g", "h", "i", "j", "k", "l", "m",
    "n", "o", "p", "q", "r", "s", "t", "u", "v", "w", "x", "y", "z">>

DecimalDigits == <<"0", "1", "2", "3", "4", "5", "6", "7", "8", "9">>

Range(seq) == {seq[i] : i \in 1..Len(seq)}

IndexOf(seq, x) == CHOOSE i \in 1..Len(seq) : seq[i] = x

(* String.prototype.toUpperCase on one character, ASCII letters only: the  *)
(* other characters of the repertoire have no upper-case form here.        *)
upperChar(ch) ==
  IF ch \in Range(LowerLetters) THEN UpperLetters[IndexOf(LowerLetters, ch)] ELSE ch

toUpperCase(s) == [i \in 1..Len(s) |-> upperChar(s[i])]

(* White space as String.prototype.trim sees it, within code units 0..255. *)
WhiteSpace == {" ", "x09", "x0A", "x0B", "x0C", "x0D", "xA0"}

RECURSIVE trimStart(_)
trimStart(s) ==
  IF s # <<>> /\ Head(s) \in WhiteSpace THEN trimStart(Tail(s)) ELSE s

RECURSIVE trimEnd(_)
trimEnd(s) ==
  IF s # <<>> /\ s[Len(s)] \in WhiteSpace THEN trimEnd(SubSeq(s, 1, Len(s) - 1)) ELSE s

trim(s) == trimEnd(trimStart(s))

startsWith(s, prefix) ==
  Len(s) >= Len(prefix) /\ SubSeq(s, 1, Len(prefix)) = prefix

substring(s, start) == SubSeq(s, start + 1, Len(s))

(* String.prototype.split on a one-character separator: the parts between *)
(* the separators, so that the empty string splits into one empty part.    *)
split(s, sep) ==
  LET at == {i \in 1..Len(s) : s[i] = sep}
      cut(k) == IF k = 0 THEN 0
                ELSE IF k > Cardinality(at) THEN Len(s) + 1
                ELSE CHOOSE i \in at : Cardinality({j \in at : j < i}) = k - 1
  IN  [k \in 1..(Cardinality(at) + 1) |-> SubSeq(s, cut(k - 1) + 1, cut(k) - 1)]

(* String.prototype.replace with a global one-character pattern.           *)
replace(s, from, to) == [i \in 1..Len(s) |-> IF s[i] = from THEN to ELSE s[i]]

(***************************************************************************)
(* btoa and atob of the runtime.                                           *)
(***************************************************************************)
Base64Alphabet ==
  <<
    "A", "B", "C", "D", "E", "F", "G", "H", "I", "J", "K", "L", "M", "N", "O", "P",
    "Q", "R", "S", "T", "U", "V", "W", "X", "Y", "Z", "a", "b", "c", "d", "e", "f",
    "g", "h", "i", "j", "k", "l", "m", "n", "o", "p", "q", "r", "s", "t", "u", "v",
    "w", "x", "y", "z", "0", "1", "2", "3", "4", "5", "6", "7", "8", "9", "+", "/"
  >>

IsBase64Digit(ch) == ch \in Range(Base64Alphabet)

sextet(ch) == IndexOf(Base64Alphabet, ch) - 1

digit64(n) == Base64Alphabet[n + 1]

(* btoa: three code units to four digits, the tail padded with "=".        *)
RECURSIVE btoaCodes(_)
btoaCodes(codes) ==
  IF Len(codes) = 0 THEN <<>>
  ELSE IF Len(codes) = 1 THEN
    <<digit64(codes[1] \div 4), digit64((codes[1] % 4) * 16), "=", "=">>
  ELSE IF Len(codes) = 2 THEN
    <<digit64(codes[1] \div 4),
      digit64((codes[1] % 4) * 16 + codes[2] \div 16),
      digit64((codes[2] % 16) * 4), "=">>
  ELSE
    <<digit64(codes[1] \div 4),
      digit64((codes[1] % 4) * 16 + codes[2] \div 16),
      digit64((codes[2] % 16) * 4 + codes[3] \div 64),
      digit64(codes[3] % 64)>>
    \o btoaCodes(SubSeq(codes, 4, Len(codes)))

btoa(binary) == btoaCodes([i \in 1..Len(binary) |-> charCodeAt(binary[i])])

(* atob is the forgiving-base64 decode: ASCII white space is dropped, one  *)
(* or two "=" are dropped from a text whose length is a multiple of four,  *)
(* a length of 1 mod 4 or any other character is an error, and the bits    *)
(* left over by a short last group are discarded.                          *)
AsciiWhiteSpace == {"x09", "x0A", "x0C", "x0D", " "}

stripAsciiWhiteSpace(s) == SelectSeq(s, LAMBDA ch : ch \notin AsciiWhiteSpace)

stripPadding(s) ==
  IF Len(s) % 4 = 0 /\ Len(s) > 0 /\ s[Len(s)] = "="
  THEN IF s[Len(s) - 1] = "=" THEN SubSeq(s, 1, Len(s) - 2)
                               ELSE SubSeq(s, 1, Len(s) - 1)
  ELSE s

RECURSIVE atobDigits(_)
atobDigits(d) ==
  IF Len(d) = 0 THEN <<>>
  ELSE IF Len(d) = 2 THEN
    <<sextet(d[1]) * 4 + sextet(d[2]) \div 16>>
  ELSE IF Len(d) = 3 THEN
    <<sextet(d[1]) * 4 + sextet(d[2]) \div 16,
      (sextet(d[2]) % 16) * 16 + sextet(d[3]) \div 4>>
  ELSE
    <<sextet(d[1]) * 4 + sextet(d[2]) \div 16,
      (sextet(d[2]) % 16) * 16 + sextet(d[3]) \div 4,
      (sextet(d[3]) % 4) * 64 + sextet(d[4])>>
    \o atobDigits(SubSeq(d, 5, Len(d)))

InvalidCharacterError ==
  [message |-> <<"The string to be decoded is not correctly encoded.">>]

NoError == [message |-> <<>>]

atob(data) ==
  LET d == stripPadding(stripAsciiWhiteSpace(data)) IN
  IF Len(d) % 4 = 1 \/ \E i \in 1..Len(d) : ~IsBase64Digit(d[i])
  THEN [threw |-> TRUE, error |-> InvalidCharacterError, value |-> <<>>]
  ELSE [threw |-> FALSE, error |-> NoError,
        value |-> LET codes == atobDigits(d)
                  IN  [i \in 1..Len(codes) |-> fromCharCode(codes[i])]]

(* blobToBase64 with the bytes read as 7-bit text.                         *)
blobToBase64SevenBit(blob) ==
  btoa([i \in 1..Len(blob) |-> fromCharCode(blob[i] % 128)])

(* blobToBase64: every byte of the blob as one character, then btoa.       *)
blobToBase64(blob) == btoa([i \in 1..Len(blob) |-> fromCharCode(blob[i])])


(***************************************************************************)
(* JSON values and JSON.parse.  A value is [t |-> type, v |-> content]: an *)
(* array holds its elements in order, an object its members [k, v] in the  *)
(* order of the text.  The number grammar is its integer part and the      *)
(* \uXXXX escape is not read: no enumerated payload uses a fraction, an    *)
(* exponent or that escape.                                                *)
(***************************************************************************)
Undefined == [t |-> "undefined", v |-> <<>>]

JNull == [t |-> "null", v |-> <<>>]

JBool(b) == [t |-> "bool", v |-> b]

JNum(n) == [t |-> "num", v |-> n]

JStr(s) == [t |-> "str", v |-> s]

JArr(elements) == [t |-> "arr", v |-> elements]

JObj(members) == [t |-> "obj", v |-> members]

SyntaxError == [message |-> <<"Unexpected token in JSON">>]

JSONWhiteSpace == {" ", "x09", "x0A", "x0D"}

ControlCharacters == {CharTable[code + 1] : code \in 0..31}

JSONEscapes ==
  [ch \in {"\"", "\\", "/", "b", "f", "n", "r", "t"} |->
     CASE ch = "b" -> "x08" [] ch = "f" -> "x0C" [] ch = "n" -> "x0A"
       [] ch = "r" -> "x0D" [] ch = "t" -> "x09" [] OTHER -> ch]

ParseFail == [ok |-> FALSE, v |-> Undefined, i |-> 0]

ParseOk(v, i) == [ok |-> TRUE, v |-> v, i |-> i]

RECURSIVE skipWs(_, _)
skipWs(s, i) ==
  IF i <= Len(s) /\ s[i] \in JSONWhiteSpace THEN skipWs(s, i + 1) ELSE i

hasLiteral(s, i, lit) ==
  i + Len(lit) - 1 <= Len(s) /\ SubSeq(s, i, i + Len(lit) - 1) = lit

digitValue(ch) == IndexOf(DecimalDigits, ch) - 1

IsDigit(ch) == ch \in Range(DecimalDigits)

RECURSIVE parseDigits(_, _, _)
parseDigits(s, i, n) ==
  IF i <= Len(s) /\ IsDigit(s[i])
  THEN parseDigits(s, i + 1, n * 10 + digitValue(s[i]))
  ELSE [n |-> n, i |-> i]

parseNumber(s, i) ==
  LET neg == s[i] = "-"
      j == IF neg THEN i + 1 ELSE i
  IN  IF j > Len(s) \/ ~IsDigit(s[j]) THEN ParseFail
      ELSE IF s[j] = "0" THEN ParseOk(JNum(0), j + 1)
      ELSE LET r == parseDigits(s, j, 0)
           IN  ParseOk(JNum(IF neg THEN 0 - r.n ELSE r.n), r.i)

RECURSIVE parseChars(_, _, _)
parseChars(s, i, acc) ==
  IF i > Len(s) THEN ParseFail
  ELSE IF s[i] = "\"" THEN ParseOk(JStr(acc), i + 1)
  ELSE IF s[i] = "\\" THEN
    IF i + 1 <= Len(s) /\ s[i + 1] \in DOMAIN JSONEscapes
    THEN parseChars(s, i + 2, Append(acc, JSONEscapes[s[i + 1]]))
    ELSE ParseFail
  ELSE IF s[i] \in ControlCharacters THEN ParseFail
  ELSE parseChars(s, i + 1, Append(acc, s[i]))

RECURSIVE parseValue(_, _)
RECURSIVE parseElements(_, _, _)
RECURSIVE parseMembers(_, _, _)
parseValue(s, start) ==
  LET i == skipWs(s, start) IN
  IF i > Len(s) THEN ParseFail
  ELSE IF s[i] = "{" THEN
    LET j == skipWs(s, i + 1)
    IN  IF j <= Len(s) /\ s[j] = "}" THEN ParseOk(JObj(<<>>), j + 1)
        ELSE parseMembers(s, j, <<>>)
  ELSE IF s[i] = "[" THEN
    LET j == skipWs(s, i + 1)
    IN  IF j <= Len(s) /\ s[j] = "]" THEN ParseOk(JArr(<<>>), j + 1)
        ELSE parseElements(s, j, <<>>)
  ELSE IF s[i] = "\"" THEN parseChars(s, i + 1, <<>>)
  ELSE IF s[i] = "-" \/ IsDigit(s[i]) THEN parseNumber(s, i)
  ELSE IF hasLiteral(s, i, <<"n", "u", "l", "l">>) THEN ParseOk(JNull, i + 4)
  ELSE IF hasLiteral(s, i, <<"t", "r", "u", "e">>) THEN ParseOk(JBool(TRUE), i + 4)
  ELSE IF hasLiteral(s, i, <<"f", "a", "l", "s", "e">>) THEN ParseOk(JBool(FALSE), i + 5)
  ELSE ParseFail

parseElements(s, start, acc) ==
  LET e == parseValue(s, start) IN
  IF ~e.ok THEN ParseFail
  ELSE LET j == skipWs(s, e.i)
           elements == Append(acc, e.v)
       IN  IF j > Len(s) THEN ParseFail
           ELSE IF s[j] = "," THEN parseElements(s, j + 1, elements)
           ELSE IF s[j] = "]" THEN ParseOk(JArr(elements), j + 1)
           ELSE ParseFail

parseMembers(s, start, acc) ==
  LET j == skipWs(s, start) IN
  IF j > Len(s) \/ s[j] # "\"" THEN ParseFail
  ELSE LET key == parseChars(s, j + 1, <<>>) IN
    IF ~key.ok THEN ParseFail
    ELSE LET c == skipWs(s, key.i) IN
      IF c > Len(s) \/ s[c] # ":" THEN ParseFail
      ELSE LET val == parseValue(s, c + 1) IN
        IF ~val.ok THEN ParseFail
        ELSE LET e == skipWs(s, val.i)
                 members == Append(acc, [k |-> key.v.v, v |-> val.v])
             IN  IF e > Len(s) THEN ParseFail
                 ELSE IF s[e] = "," THEN parseMembers(s, e + 1, members)
                 ELSE IF s[e] = "}" THEN ParseOk(JObj(members), e + 1)
                 ELSE ParseFail

JSONparse(text) ==
  LET r == parseValue(text, 1) IN
  IF r.ok /\ skipWs(text, r.i) > Len(text)
  THEN [threw |-> FALSE, error |-> NoError, value |-> r.v]
  ELSE [threw |-> TRUE, error |-> SyntaxError, value |-> Undefined]

(***************************************************************************)
(* The language's own conversions, as the template literals and the ||,    *)
(* ?: and * of handleSecure apply them.                                    *)
(***************************************************************************)
(* value.key for a value that is neither null nor undefined: the last      *)
(* member of that name of an object, undefined for any other value.        *)
getProperty(value, key) ==
  IF value.t = "obj" /\ \E i \in 1..Len(value.v) : value.v[i].k = key
  THEN LET last == CHOOSE i \in 1..Len(value.v) :
                     /\ value.v[i].k = key
                     /\ \A j \in 1..Len(value.v) : value.v[j].k = key => j <= i
       IN  value.v[last].v
  ELSE Undefined

ToBoolean(value) ==
  CASE value.t \in {"undefined", "null"} -> FALSE
    [] value.t = "bool" -> value.v
    [] value.t = "num" -> value.v # 0
    [] value.t = "str" -> value.v # <<>>
    [] OTHER -> TRUE

RECURSIVE natToString(_)
natToString(n) ==
  IF n < 10 THEN <<DecimalDigits[n + 1]>>
  ELSE natToString(n \div 10) \o <<DecimalDigits[(n % 10) + 1]>>

numberToString(n) == IF n < 0 THEN <<"-">> \o natToString(0 - n) ELSE natToString(n)

RECURSIVE toText(_)
RECURSIVE joinElements(_)
toText(value) ==
  CASE value.t = "str" -> value.v
    [] value.t = "num" -> numberToString(value.v)
    [] value.t = "bool" ->
         IF value.v THEN <<"t", "r", "u", "e">> ELSE <<"f", "a", "l", "s", "e">>
    [] value.t = "null" -> <<"n", "u", "l", "l">>
    [] value.t = "undefined" -> <<"u", "n", "d", "e", "f", "i", "n", "e", "d">>
    [] value.t = "arr" -> joinElements(value.v)
    [] OTHER -> <<"[", "o", "b", "j", "e", "c", "t", " ",
                  "O", "b", "j", "e", "c", "t", "]">>

joinElements(elements) ==
  IF elements = <<>> THEN <<>>
  ELSE LET first == IF Head(elements).t \in {"null", "undefined"} THEN <<>>
                    ELSE toText(Head(elements))
       IN  IF Len(elements) = 1 THEN first
           ELSE first \o <<",">> \o joinElements(Tail(elements))

NaN == [nan |-> TRUE, n |-> 0]

Number(n) == [nan |-> FALSE, n |-> n]

(* StringToNumber on decimal integer text; the empty text is 0 and any     *)
(* other text is NaN.                                                      *)
stringToNumber(s) ==
  LET text == trim(s)
      neg == text # <<>> /\ Head(text) = "-"
      body == IF text # <<>> /\ Head(text) \in {"-", "+"} THEN Tail(text) ELSE text
  IN  IF text = <<>> THEN Number(0)
      ELSE IF body = <<>> \/ \E i \in 1..Len(body) : ~IsDigit(body[i]) THEN NaN
      ELSE LET n == parseDigits(body, 1, 0).n
           IN  Number(IF neg THEN 0 - n ELSE n)

ToNumber(value) ==
  CASE value.t = "num" -> Number(value.v)
    [] value.t = "bool" -> Number(IF value.v THEN 1 ELSE 0)
    [] value.t = "null" -> Number(0)
    [] value.t = "str" -> stringToNumber(value.v)
    [] value.t = "arr" -> stringToNumber(toText(value))
    [] OTHER -> NaN

(***************************************************************************)
(* Date.prototype.toUTCString.  The time value iat * 1000 is carried in    *)
(* seconds: the milliseconds of an integer iat are 0 and are not printed.  *)
(***************************************************************************)
DayNames ==
  <<<<"S", "u", "n">>, <<"M", "o", "n">>, <<"T", "u", "e">>, <<"W", "e", "d">>,
    <<"T", "h", "u">>, <<"F", "r", "i">>, <<"S", "a", "t">>>>

MonthNames ==
  <<<<"J", "a", "n">>, <<"F", "e", "b">>, <<"M", "a", "r">>, <<"A", "p", "r">>,
    <<"M", "a", "y">>, <<"J", "u", "n">>, <<"J", "u", "l">>, <<"A", "u", "g">>,
    <<"S", "e", "p">>, <<"O", "c", "t">>, <<"N", "o", "v">>, <<"D", "e", "c">>>>

pad2(n) == <<DecimalDigits[(n \div 10) + 1], DecimalDigits[(n % 10) + 1]>>

pad4(n) ==
  IF n >= 1000 THEN natToString(n) ELSE pad2(n \div 100) \o pad2(n % 100)

(* The civil date of a day number counted from 1970-01-01.                 *)
civilFromDays(days) ==
  LET z == days + 719468
      era == z \div 146097
      doe == z - era * 146097
      yoe == (doe - doe \div 1460 + doe \div 36524 - doe \div 146096) \div 365
      doy == doe - (365 * yoe + yoe \div 4 - yoe \div 100)
      mp == (5 * doy + 2) \div 153
      month == IF mp < 10 THEN mp + 3 ELSE mp - 9
  IN  [year |-> yoe + era * 400 + (IF month <= 2 THEN 1 ELSE 0),
       month |-> month,
       day |-> doy - (153 * mp + 2) \div 5 + 1]

toUTCString(time) ==
  IF time.nan THEN <<"I", "n", "v", "a", "l", "i", "d", " ", "D", "a", "t", "e">>
  ELSE LET days == time.n \div 86400
           secs == time.n % 86400
           date == civilFromDays(days)
       IN  DayNames[((days + 4) % 7) + 1] \o <<",", " ">> \o pad2(date.day)
           \o <<" ">> \o MonthNames[date.month] \o <<" ">> \o pad4(date.year)
           \o <<" ">> \o pad2(secs \div 3600) \o <<":">> \o pad2((secs % 3600) \div 60)
           \o <<":">> \o pad2(secs % 60) \o <<" ", "G", "M", "T">>

(***************************************************************************)
(* Responses and the two page templates.                                   *)
(***************************************************************************)
(* new Response(body, init): the status defaults to 200, and a text body   *)
(* given no Content-Type header is sent as text/plain.                     *)
Response(body, init) ==
  [status |-> IF "status" \in DOMAIN init THEN init.status ELSE 200,
   contentType |-> IF "headers" \in DOMAIN init THEN init.headers["Content-Type"]
                   ELSE "text/plain;charset=UTF-8",
   body |-> body]

HtmlHeaders == [name \in {"Content-Type"} |-> "text/html"]

renderHTML(title, content) ==
     <<"\n\t\t", "<!DOCTYPE html>",
       "\n\t\t", "<html lang=\"en\">",
       "\n\t\t", "<head>",
       "\n\t\t\t", "<meta charset=\"UTF-8\">",
       "\n\t\t\t", "<meta name=\"viewport\" content=\"width=device-width, initial-scale=1.0\">",
       "\n\t\t\t", "<title>">>
  \o title
  \o <<"</title>",
       "\n\t\t\t", "<style>",
       "\n\t\t\t\t", "body {",
       "\n\t\t\t\t\t", "font-family: -apple-system, BlinkMacSystemFont, 'Segoe UI', Roboto, sans-serif;",
       "\n\t\t\t\t\t", "max-width: 800px;",
       "\n\t\t\t\t\t", "margin: 50px auto;",
       "\n\t\t\t\t\t", "padding: 20px;",
       "\n\t\t\t\t\t", "line-height: 1.6;",
       "\n\t\t\t\t", "}",
       "\n\t\t\t\t", "h1 {",
       "\n\t\t\t\t\t", "color: #333;",
       "\n\t\t\t\t\t", "border-bottom: 2px solid #0066cc;",
       "\n\t\t\t\t\t", "padding-bottom: 10px;",
       "\n\t\t\t\t", "}",
       "\n\t\t\t\t", "a {",
       "\n\t\t\t\t\t", "color: #0066cc;",
       "\n\t\t\t\t\t", "text-decoration: none;",
       "\n\t\t\t\t\t", "font-weight: bold;",
       "\n\t\t\t\t", "}",
       "\n\t\t\t\t", "a:hover {",
       "\n\t\t\t\t\t", "text-decoration: underline;",
       "\n\t\t\t\t", "}",
       "\n\t\t\t\t", "p {",
       "\n\t\t\t\t\t", "font-size: 18px;",
       "\n\t\t\t\t\t", "color: #555;",
       "\n\t\t\t\t", "}",
       "\n\t\t\t", "</style>",
       "\n\t\t", "</head>",
       "\n\t\t", "<body>",
       "\n\t\t\t", "<h1>">>
  \o title
  \o <<"</h1>",
       "\n\t\t\t">>
  \o content
  \o <<"\n\t\t", "</body>",
       "\n\t\t", "</html>",
       "\n\t">>

flagPage(country, base64) ==
     <<"\n\t\t\t", "<!DOCTYPE html>",
       "\n\t\t\t", "<html lang=\"en\">",
       "\n\t\t\t", "<head>",
       "\n\t\t\t\t", "<meta charset=\"UTF-8\">",
       "\n\t\t\t\t", "<meta name=\"viewport\" content=\"width=device-width, initial-scale=1.0\">",
       "\n\t\t\t\t", "<title>", "Flag: ">>
  \o country
  \o <<"</title>",
       "\n\t\t\t\t", "<style>",
       "\n\t\t\t\t\t", "body {",
       "\n\t\t\t\t\t\t", "font-family: -apple-system, BlinkMacSystemFont, 'Segoe UI', Roboto, sans-serif;",
       "\n\t\t\t\t\t\t", "max-width: 800px;",
       "\n\t\t\t\t\t\t", "margin: 50px auto;",
       "\n\t\t\t\t\t\t", "padding: 20px;",
       "\n\t\t\t\t\t\t", "text-align: center;",
       "\n\t\t\t\t\t", "}",
       "\n\t\t\t\t\t", ".flag-container {",
       "\n\t\t\t\t\t\t", "margin: 30px 0;",
       "\n\t\t\t\t\t\t", "border: 1px solid #ddd;",
       "\n\t\t\t\t\t\t", "border-radius: 8px;",
       "\n\t\t\t\t\t\t", "padding: 20px;",
       "\n\t\t\t\t\t\t", "background: #f9f9f9;",
       "\n\t\t\t\t\t", "}",
       "\n\t\t\t\t\t", ".flag-container img {",
       "\n\t\t\t\t\t\t", "max-width: 100%;",
       "\n\t\t\t\t\t\t", "height: auto;",
       "\n\t\t\t\t\t\t", "border: 2px solid #333;",
       "\n\t\t\t\t\t\t", "box-shadow: 0 4px 6px rgba(0,0,0,0.1);",
       "\n\t\t\t\t\t", "}",
       "\n\t\t\t\t\t", ".back-link {",
       "\n\t\t\t\t\t\t", "margin-top: 30px;",
       "\n\t\t\t\t\t\t", "font-size: 16px;",
       "\n\t\t\t\t\t", "}",
       "\n\t\t\t\t\t", ".back-link a {",
       "\n\t\t\t\t\t\t", "color: #0066cc;",
       "\n\t\t\t\t\t\t", "text-decoration: none;",
       "\n\t\t\t\t\t", "}",
       "\n\t\t\t\t\t", ".back-link a:hover {",
       "\n\t\t\t\t\t\t", "text-decoration: underline;",
       "\n\t\t\t\t\t", "}",
       "\n\t\t\t\t", "</style>",
       "\n\t\t\t", "</head>",
       "\n\t\t\t", "<body>",
       "\n\t\t\t\t", "<h1>", "Country: ">>
  \o country
  \o <<"</h1>",
       "\n\t\t\t\t", "<div class=\"flag-container\">",
       "\n\t\t\t\t\t", "<img src=\"", "data:image/png;base64,">>
  \o base64
  \o <<"\" alt=\"Flag of ">>
  \o country
  \o <<"\">",
       "\n\t\t\t\t", "</div>",
       "\n\t\t\t\t", "<div class=\"back-link\">",
       "\n\t\t\t\t\t", "<a href=\"/secure\">← Back to authentication info</a>",
       "\n\t\t\t\t", "</div>",
       "\n\t\t\t", "</body>",
       "\n\t\t\t", "</html>",
       "\n\t\t">>

Unknown == <<"U", "n", "k", "n", "o", "w", "n">>

(* decodeJWT that asks for at least three segments instead of exactly      *)
(* three.                                                                  *)
decodeJWTAtLeastThree(jwt) ==
  LET parts == split(jwt, ".") IN
  IF Len(parts) < 3
  THEN [threw |-> TRUE, error |-> [message |-> <<"Invalid JWT format">>],
        value |-> Undefined]
  ELSE LET jsonPayload == atob(replace(replace(parts[2], "-", "+"), "_", "/"))
       IN  IF jsonPayload.threw
           THEN [threw |-> TRUE, error |-> jsonPayload.error, value |-> Undefined]
           ELSE JSONparse(jsonPayload.value)

(***************************************************************************)
(* decodeJWT: the payload segment of the token, base64url-decoded and      *)
(* parsed, with no signature verification.                                 *)
(***************************************************************************)
decodeJWT(jwt) ==
  LET parts == split(jwt, ".") IN
  IF Len(parts) # 3
  THEN [threw |-> TRUE, error |-> [message |-> <<"Invalid JWT format">>],
        value |-> Undefined]
  ELSE LET payload == parts[2]
           base64 == replace(replace(payload, "-", "+"), "_", "/")
           jsonPayload == atob(base64)
       IN  IF jsonPayload.threw
           THEN [threw |-> TRUE, error |-> jsonPayload.error, value |-> Undefined]
           ELSE JSONparse(jsonPayload.value)

(***************************************************************************)
(* handleSecure: the /secure route.                                        *)
(***************************************************************************)
CookiePrefix ==
  <<"C", "F", "_", "A", "u", "t", "h", "o", "r", "i", "z", "a", "t", "i", "o", "n", "=">>

Null == [null |-> TRUE, v |-> <<>>]

NonNull(s) == [null |-> FALSE, v |-> s]

(* The loop over the cookies: the first one whose trimmed text starts with *)
(* the prefix gives the token.                                             *)
RECURSIVE findToken(_)
findToken(cookies) ==
  IF cookies = <<>> THEN Null
  ELSE LET trimmed == trim(Head(cookies))
       IN  IF startsWith(trimmed, CookiePrefix)
           THEN NonNull(substring(trimmed, Len(CookiePrefix)))
           ELSE findToken(Tail(cookies))

(* The cookie scan with includes() in place of startsWith(): the token is  *)
(* what follows the first occurrence of the prefix anywhere in a cookie.   *)
RECURSIVE findTokenByInclusion(_)
findTokenByInclusion(cookies) ==
  IF cookies = <<>> THEN Null
  ELSE LET trimmed == trim(Head(cookies))
           at == {i \in 1..Len(trimmed) : startsWith(substring(trimmed, i - 1), CookiePrefix)}
       IN  IF at # {}
           THEN NonNull(substring(trimmed, (CHOOSE i \in at : \A j \in at : i <= j) - 1
                                           + Len(CookiePrefix)))
           ELSE findTokenByInclusion(Tail(cookies))

jwtTokenOfByInclusion(cookieHeader) ==
  IF ~cookieHeader.null /\ cookieHeader.v # <<>>
  THEN findTokenByInclusion(split(cookieHeader.v, ";"))
  ELSE Null

jwtTokenOf(cookieHeader) ==
  IF ~cookieHeader.null /\ cookieHeader.v # <<>>
  THEN findToken(split(cookieHeader.v, ";"))
  ELSE Null

TypeErrorOnNull(key) ==
  [message |-> <<"Cannot read properties of null (reading '", key, "')">>]

errorResponse(what, error) ==
  Response(renderHTML(<<"Error">>, <<"<p>", what>> \o error.message \o <<"</p>">>),
           [status |-> 500, headers |-> HtmlHeaders])

claimsResponse(payload) ==
  LET claimEmail == getProperty(payload, <<"e", "m", "a", "i", "l">>)
      claimCountry == getProperty(payload, <<"c", "o", "u", "n", "t", "r", "y">>)
      claimIat == getProperty(payload, <<"i", "a", "t">>)
      email == IF ToBoolean(claimEmail) THEN toText(claimEmail) ELSE Unknown
      country == IF ToBoolean(claimCountry) THEN toText(claimCountry) ELSE Unknown
      timestamp == IF ToBoolean(claimIat) THEN toUTCString(ToNumber(claimIat))
                   ELSE Unknown
      message == email \o <<" authenticated at ">> \o timestamp \o <<" from ">>
      countryLink == <<"<a href=\"/secure/">> \o country \o <<"\">">> \o country
                     \o <<"</a>">>
  IN  Response(renderHTML(<<"Authentication Info">>,
                          <<"<p>">> \o message \o countryLink \o <<"</p>">>),
               [headers |-> HtmlHeaders])

handleSecure(request) ==
  LET jwtToken == jwtTokenOf(request.cookie) IN
  IF jwtToken.null \/ jwtToken.v = <<>>
  THEN [decodeCalls |-> 0,
        response |->
          Response(renderHTML(<<"Authentication Required">>,
                     <<"<p>No Cloudflare Access JWT found. Please authenticate.</p>">>),
                   [status |-> 401, headers |-> HtmlHeaders])]
  ELSE LET payload == decodeJWT(jwtToken.v) IN
       [decodeCalls |-> 1,
        response |->
          IF payload.threw THEN errorResponse("Error parsing JWT: ", payload.error)
          ELSE IF payload.value.t = "null"
            THEN errorResponse("Error parsing JWT: ", TypeErrorOnNull("email"))
          ELSE claimsResponse(payload.value)]

(***************************************************************************)
(* handleCountryFlag: the /secure/:country route, in the steps its awaits  *)
(* cut it into.                                                            *)
(***************************************************************************)
flagKeyOf(country) == country \o <<".", "p", "n", "g">>

(* The not-found page returned without its status.                         *)
flagNotFoundResponseNoStatus(country) ==
  Response(renderHTML(<<"Flag for ">> \o country,
                      <<"<p>Flag for country code \"">> \o country
                      \o <<"\" not found.</p>">>),
           [headers |-> HtmlHeaders])

flagNotFoundResponse(country) ==
  Response(renderHTML(<<"Flag for ">> \o country,
       <<"<p>Flag for country code \"">>
    \o country
    \o <<"\" not found.</p>",
         "\n\t\t\t\t\t", "<p><a href=\"/secure\">← Back to authentication info</a></p>">>),
           [status |-> 404, headers |-> HtmlHeaders])

flagResponse(country, flagBlob) ==
  Response(flagPage(country, blobToBase64(flagBlob)), [headers |-> HtmlHeaders])

flagErrorResponse(error) == errorResponse("Error loading flag: ", error)

(***************************************************************************)
(* fetch: the dispatch on url.pathname.                                    *)
(***************************************************************************)
SecurePath == <<"/", "s", "e", "c", "u", "r", "e">>

(* Canonicalize of a case-insensitive pattern without the unicode flag.    *)
canonicalize(ch) == upperChar(ch)

IsLetter(ch) == canonicalize(ch) \in Range(UpperLetters)

(* pathname.match(/^\/secure\/([A-Z]{2})$/i): the captured group, or null. *)
countryMatch(pathname) ==
  LET prefix == SecurePath \o <<"/">> IN
  IF /\ Len(pathname) = Len(prefix) + 2
     /\ \A i \in 1..Len(prefix) : canonicalize(pathname[i]) = canonicalize(prefix[i])
     /\ IsLetter(pathname[Len(prefix) + 1])
     /\ IsLetter(pathname[Len(prefix) + 2])
  THEN NonNull(SubSeq(pathname, Len(prefix) + 1, Len(prefix) + 2))
  ELSE Null

defaultResponse == Response(<<"Not Found. Try /secure">>, [status |-> 404])

(***************************************************************************)
(* The state: one invocation of the worker at a time.                      *)
(***************************************************************************)
VARIABLES
  pc,           \* "idle", "fetch", "get", "blob" or "done"
  jar,          \* the cookies the client holds for this request
  request,      \* [pathname, cookie]: url.pathname and the Cookie header
  FLAGS,        \* the R2 bucket: the stored keys and their bytes
  country,      \* handleCountryFlag's argument
  flag,         \* the object FLAGS.get gave
  response,     \* the Response returned
  getCalls,     \* FLAGS.get calls of this invocation
  decodeCalls,  \* decodeJWT calls of this invocation
  storeEvent,   \* what the bucket did in this invocation
  storeError    \* the error the bucket raised, if it raised one

vars ==
  <<pc, jar, request, FLAGS, country, flag, response, getCalls, decodeCalls,
    storeEvent, storeError>>

NoResponse == [status |-> 0, contentType |-> "", body |-> <<>>]

(***************************************************************************)
(* The requests enumerated.                                                *)
(***************************************************************************)
MaxCookies == 2

MaxBlobLen == 3

(* {"email":"a@b.com","iat":1696272615,"country":"US"} *)
PayloadFull ==
  <<"{", "\"", "e", "m", "a", "i", "l", "\"", ":", "\"", "a", "@", "b",
    ".", "c", "o", "m", "\"", ",", "\"", "i", "a", "t", "\"", ":", "1",
    "6", "9", "6", "2", "7", "2", "6", "1", "5", ",", "\"", "c", "o", "u",
    "n", "t", "r", "y", "\"", ":", "\"", "U", "S", "\"", "}">>

(* {} *)
PayloadEmpty ==
  <<"{", "}">>

(* {"email":"","iat":0,"country":""} *)
PayloadFalsy ==
  <<"{", "\"", "e", "m", "a", "i", "l", "\"", ":", "\"", "\"", ",", "\"",
    "i", "a", "t", "\"", ":", "0", ",", "\"", "c", "o", "u", "n", "t", "r",
    "y", "\"", ":", "\"", "\"", "}">>

(* {"email":"<script>","country":"<script>"} *)
PayloadScript ==
  <<"{", "\"", "e", "m", "a", "i", "l", "\"", ":", "\"", "<", "s", "c",
    "r", "i", "p", "t", ">", "\"", ",", "\"", "c", "o", "u", "n", "t", "r",
    "y", "\"", ":", "\"", "<", "s", "c", "r", "i", "p", "t", ">", "\"",
    "}">>

(* {"iat":0} *)
PayloadEpoch ==
  <<"{", "\"", "i", "a", "t", "\"", ":", "0", "}">>

(* {"iat":-1} *)
PayloadBefore1970 ==
  <<"{", "\"", "i", "a", "t", "\"", ":", "-", "1", "}">>

(* {"email":"a?>~"} *)
PayloadEmailOnly ==
  <<"{", "\"", "e", "m", "a", "i", "l", "\"", ":", "\"", "a", "?", ">",
    "~", "\"", "}">>

(* {"email":7} *)
PayloadNumericEmail ==
  <<"{", "\"", "e", "m", "a", "i", "l", "\"", ":", "7", "}">>

(* {"email": "a", "email": "b"} *)
PayloadTwice ==
  <<"{", "\"", "e", "m", "a", "i", "l", "\"", ":", " ", "\"", "a", "\"",
    ",", " ", "\"", "e", "m", "a", "i", "l", "\"", ":", " ", "\"", "b",
    "\"", "}">>

(* null *)
PayloadNull ==
  <<"n", "u", "l", "l">>

(* 5 *)
PayloadNumber ==
  <<"5">>

(* [] *)
PayloadArray ==
  <<"[", "]">>

(* "s" *)
PayloadString ==
  <<"\"", "s", "\"">>

(* true *)
PayloadTrue ==
  <<"t", "r", "u", "e">>

(* {"email": *)
PayloadCut ==
  <<"{", "\"", "e", "m", "a", "i", "l", "\"", ":">>

PayloadTexts ==
  {PayloadFull, PayloadEmpty, PayloadFalsy, PayloadScript, PayloadEpoch,
   PayloadBefore1970, PayloadEmailOnly, PayloadNumericEmail, PayloadTwice,
   PayloadNull, PayloadNumber, PayloadArray, PayloadString, PayloadTrue,
   PayloadCut}

(* The payload segment as the access layer writes it: base64 in the        *)
(* URL-safe alphabet, without padding.                                     *)
base64url(text) ==
  replace(replace(SelectSeq(btoa(text), LAMBDA ch : ch # "="), "+", "-"), "/", "_")

HeaderSegment == <<"e", "y", "J", "h">>

SignatureSegment == <<"s", "i", "g">>

tokenOf(payloadSegment) ==
  HeaderSegment \o <<".">> \o payloadSegment \o <<".">> \o SignatureSegment

GoodToken == tokenOf(base64url(PayloadFull))

TwoSegmentToken == HeaderSegment \o <<".">> \o base64url(PayloadFull)

Tokens ==
  {tokenOf(base64url(text)) : text \in PayloadTexts}
  \cup {tokenOf(btoa(text)) : text \in {PayloadEmpty, PayloadNumber}}
  \cup {tokenOf(<<"!", "!", "!", "!">>), tokenOf(<<"e">>), tokenOf(<<>>),
        <<".", ".">>, <<>>, <<"a", "b", "c">>, TwoSegmentToken,
        GoodToken \o <<".", "x">>, <<".", ".", ".">>}

CredentialKey ==
  <<"C", "F", "_", "A", "u", "t", "h", "o", "r", "i", "z", "a", "t", "i", "o", "n">>

OtherKeys ==
  {<<"s", "i", "d">>,
   <<"X">> \o CredentialKey,
   CredentialKey \o <<"2">>,
   toUpperCase(CredentialKey)}

Pair(name, eq, value) == [name |-> name, eq |-> eq, value |-> value]

CookiePairs ==
  {Pair(name, TRUE, GoodToken) : name \in OtherKeys}
  \cup {Pair(CredentialKey, FALSE, <<>>)}
  \cup {Pair(CredentialKey, TRUE, value) :
          value \in {GoodToken, <<>>, <<" ">>, TwoSegmentToken}}

NoJar == [sent |-> FALSE, pairs |-> <<>>, sep |-> <<";">>]

SeqsUpTo(S, n) == UNION {[1..k -> S] : k \in 0..n}

Jars ==
  {NoJar}
  \cup {[sent |-> TRUE, pairs |-> pairs, sep |-> sep] :
          pairs \in SeqsUpTo(CookiePairs, MaxCookies),
          sep \in {<<";">>, <<";", " ">>}}
  \cup {[sent |-> TRUE, pairs |-> <<Pair(CredentialKey, TRUE, token)>>, sep |-> <<";">>] :
          token \in Tokens}

(* The Cookie header a client sends for its jar.                           *)
RECURSIVE joinPairs(_, _)
joinPairs(pairs, sep) ==
  IF pairs = <<>> THEN <<>>
  ELSE LET first == Head(pairs).name
                    \o (IF Head(pairs).eq THEN <<"=">> \o Head(pairs).value ELSE <<>>)
       IN  IF Len(pairs) = 1 THEN first
           ELSE first \o sep \o joinPairs(Tail(pairs), sep)

cookieHeaderOf(j) == IF j.sent THEN NonNull(joinPairs(j.pairs, j.sep)) ELSE Null

Paths ==
  {SecurePath,
   SecurePath \o <<"/", "u", "s">>,
   SecurePath \o <<"/", "U", "S">>,
   SecurePath \o <<"/", "u", "S">>,
   SecurePath \o <<"/", "c", "a">>,
   SecurePath \o <<"/", "Z", "Z">>,
   SecurePath \o <<"/", "u", "s", "a">>,
   SecurePath \o <<"/", "u", "1">>,
   SecurePath \o <<"/", "u">>,
   SecurePath \o <<"/">>,
   SecurePath \o <<"/", "u", "s", "/">>,
   SecurePath \o <<"x", "u", "s">>,
   toUpperCase(SecurePath),
   toUpperCase(SecurePath) \o <<"/", "u", "s">>,
   <<"/">>}

Requests ==
  {[pathname |-> SecurePath, jar |-> j] : j \in Jars}
  \cup {[pathname |-> p, jar |-> NoJar] : p \in Paths}

(* The bucket's contents: flags stored under keys of two capitals + .png.  *)
PngSignature == <<137, 80, 78, 71>>

KeyUS == <<"U", "S", ".", "p", "n", "g">>

KeyCA == <<"C", "A", ".", "p", "n", "g">>

Bucket(keys, blob) == [key \in keys |-> blob]

Buckets == {Bucket({}, <<>>), Bucket({KeyUS}, PngSignature), Bucket({KeyUS, KeyCA}, <<>>)}

StoreErrors == {<<"R2 internal error (10001)">>, <<"Network connection lost.">>}

(***************************************************************************)
(* The invocation's steps.                                                 *)
(***************************************************************************)
Init ==
  /\ pc = "idle"
  /\ jar = NoJar
  /\ request = [pathname |-> <<>>, cookie |-> Null]
  /\ FLAGS \in Buckets
  /\ country = <<>>
  /\ flag = Null
  /\ response = NoResponse
  /\ getCalls = 0
  /\ decodeCalls = 0
  /\ storeEvent = "none"
  /\ storeError = NoError

(* A request arrives and the runtime calls fetch.                          *)
Arrive(req) ==
  /\ pc = "idle"
  /\ pc' = "fetch"
  /\ jar' = req.jar
  /\ request' = [pathname |-> req.pathname, cookie |-> cookieHeaderOf(req.jar)]
  /\ UNCHANGED <<FLAGS, country, flag, response, getCalls, decodeCalls,
                 storeEvent, storeError>>

Receive == \E req \in Requests : Arrive(req)

(* fetch, pathname === '/secure': handleSecure runs to its Response.       *)
FetchSecure ==
  /\ pc = "fetch"
  /\ request.pathname = SecurePath
  /\ LET r == handleSecure(request)
     IN  /\ response' = r.response
         /\ decodeCalls' = r.decodeCalls
  /\ pc' = "done"
  /\ UNCHANGED <<jar, request, FLAGS, country, flag, getCalls, storeEvent, storeError>>

(* fetch, the pattern matches: handleCountryFlag is called with the code   *)
(* in capitals and runs to its await of FLAGS.get.                         *)
FetchCountry ==
  /\ pc = "fetch"
  /\ request.pathname # SecurePath
  /\ ~countryMatch(request.pathname).null
  /\ country' = toUpperCase(countryMatch(request.pathname).v)
  /\ pc' = "get"
  /\ UNCHANGED <<jar, request, FLAGS, flag, response, getCalls, decodeCalls,
                 storeEvent, storeError>>

(* fetch, the default route.                                               *)
FetchDefault ==
  /\ pc = "fetch"
  /\ request.pathname # SecurePath
  /\ countryMatch(request.pathname).null
  /\ response' = defaultResponse
  /\ pc' = "done"
  /\ UNCHANGED <<jar, request, FLAGS, country, flag, getCalls, decodeCalls,
                 storeEvent, storeError>>

(* FLAGS.get rejects: the catch block answers.                             *)
FlagsGetRejects ==
  /\ pc = "get"
  /\ \E message \in StoreErrors :
       /\ storeError' = [message |-> message]
       /\ response' = flagErrorResponse([message |-> message])
  /\ getCalls' = getCalls + 1
  /\ storeEvent' = "getRejected"
  /\ pc' = "done"
  /\ UNCHANGED <<jar, request, FLAGS, country, flag, decodeCalls>>

(* FLAGS.get resolves to null: there is no object under the key.           *)
FlagNotFound ==
  /\ pc = "get"
  /\ flagKeyOf(country) \notin DOMAIN FLAGS
  /\ getCalls' = getCalls + 1
  /\ storeEvent' = "getNull"
  /\ response' = flagNotFoundResponse(country)
  /\ pc' = "done"
  /\ UNCHANGED <<jar, request, FLAGS, country, flag, decodeCalls, storeError>>

(* FLAGS.get resolves to the object: handleCountryFlag awaits its body.    *)
FlagFound ==
  /\ pc = "get"
  /\ flagKeyOf(country) \in DOMAIN FLAGS
  /\ getCalls' = getCalls + 1
  /\ storeEvent' = "getObject"
  /\ flag' = NonNull(FLAGS[flagKeyOf(country)])
  /\ pc' = "blob"
  /\ UNCHANGED <<jar, request, FLAGS, country, response, decodeCalls, storeError>>

(* flag.blob() rejects: the catch block answers.                           *)
BlobRejects ==
  /\ pc = "blob"
  /\ \E message \in StoreErrors :
       /\ storeError' = [message |-> message]
       /\ response' = flagErrorResponse([message |-> message])
  /\ storeEvent' = "bodyRejected"
  /\ pc' = "done"
  /\ UNCHANGED <<jar, request, FLAGS, country, flag, getCalls, decodeCalls>>

(* flag.blob() resolves: the page with the image inline is returned.       *)
BlobResolves ==
  /\ pc = "blob"
  /\ storeEvent' = "bodyRead"
  /\ response' = flagResponse(country, flag.v)
  /\ pc' = "done"
  /\ UNCHANGED <<jar, request, FLAGS, country, flag, getCalls, decodeCalls, storeError>>

(* The Response is sent and the invocation ends; nothing is kept.          *)
Deliver ==
  /\ pc = "done"
  /\ pc' = "idle"
  /\ jar' = NoJar
  /\ request' = [pathname |-> <<>>, cookie |-> Null]
  /\ country' = <<>>
  /\ flag' = Null
  /\ response' = NoResponse
  /\ getCalls' = 0
  /\ decodeCalls' = 0
  /\ storeEvent' = "none"
  /\ storeError' = NoError
  /\ UNCHANGED FLAGS

Next ==
  \/ Receive
  \/ FetchSecure
  \/ FetchCountry
  \/ FetchDefault
  \/ FlagsGetRejects
  \/ FlagNotFound
  \/ FlagFound
  \/ BlobRejects
  \/ BlobResolves
  \/ Deliver

Spec == Init /\ [][Next]_vars

(***************************************************************************)
(* The flag route alone, over every blob up to MaxBlobLen bytes.           *)
(***************************************************************************)
BlobBytes == {0, 1, 62, 63, 127, 128, 255}

(* Every sequence over BlobBytes up to the bound, and every byte value at  *)
(* every position of a blob of the longest length.                         *)
Blobs ==
  SeqsUpTo(BlobBytes, MaxBlobLen)
  \cup {[i \in 1..MaxBlobLen |-> byte] : byte \in 0..255}

FlagPaths ==
  {SecurePath \o <<"/", "u", "s">>, SecurePath \o <<"/", "C", "A">>,
   SecurePath \o <<"/", "u", "s", "a">>}

InitBlob ==
  /\ pc = "idle"
  /\ jar = NoJar
  /\ request = [pathname |-> <<>>, cookie |-> Null]
  /\ FLAGS \in {Bucket({KeyUS}, blob) : blob \in Blobs}
  /\ country = <<>>
  /\ flag = Null
  /\ response = NoResponse
  /\ getCalls = 0
  /\ decodeCalls = 0
  /\ storeEvent = "none"
  /\ storeError = NoError

ReceiveFlag == \E p \in FlagPaths : Arrive([pathname |-> p, jar |-> NoJar])

NextBlob ==
  \/ ReceiveFlag
  \/ FetchCountry
  \/ FetchDefault
  \/ FlagsGetRejects
  \/ FlagNotFound
  \/ FlagFound
  \/ BlobRejects
  \/ BlobResolves
  \/ Deliver

SpecBlob == InitBlob /\ [][NextBlob]_vars

(***************************************************************************)
(* The properties, and the notions they are stated in.                     *)
(***************************************************************************)
Contains(text, part) ==
  \E i \in 1..(Len(text) - Len(part) + 1) : SubSeq(text, i, i + Len(part) - 1) = part

(* The jar holds a pair whose key is the credential key.                   *)
HasCredential(j) ==
  j.sent /\ \E i \in 1..Len(j.pairs) : j.pairs[i].name = CredentialKey /\ j.pairs[i].eq

(* The value of the first such pair, without the white space around it: a  *)
(* cookie value holds none of its own.                                     *)
credentialOf(j) ==
  LET first == CHOOSE i \in 1..Len(j.pairs) :
                 /\ j.pairs[i].name = CredentialKey /\ j.pairs[i].eq
                 /\ \A k \in 1..(i - 1) : ~(j.pairs[k].name = CredentialKey /\ j.pairs[k].eq)
  IN  trim(j.pairs[first].value)

dotCount(s) == Cardinality({i \in 1..Len(s) : s[i] = "."})

OnSecure == pc = "done" /\ request.pathname = SecurePath

IsUnauthenticated(r) ==
  /\ r.status = 401
  /\ r.contentType = "text/html"
  /\ Contains(r.body, <<"<h1>", "Authentication Required", "</h1>">>)
  /\ Contains(r.body, <<"<p>No Cloudflare Access JWT found. Please authenticate.</p>">>)

IsMalformedToken(r) ==
  /\ r.status = 500
  /\ Contains(r.body, <<"<p>", "Error parsing JWT: ", "Invalid JWT format", "</p>">>)

C2_WrongSegmentCountIsMalformed ==
  (OnSecure /\ HasCredential(jar) /\ dotCount(credentialOf(jar)) # 2)
    => IsMalformedToken(response)

(* C2 amended: with the key present and its value not empty, a value that  *)
(* does not split on '.' into exactly 3 segments gets the 'Invalid JWT     *)
(* format' error (500) and no other result; the empty value gets the 401   *)
(* page of a missing credential.                                           *)
C2_NonEmptyWrongSegmentCountIsMalformed ==
  (OnSecure /\ HasCredential(jar))
    => /\ (credentialOf(jar) # <<>> /\ dotCount(credentialOf(jar)) # 2)
            => IsMalformedToken(response)
       /\ credentialOf(jar) = <<>> => IsUnauthenticated(response)

(* C2's case: a token of 4 segments was answered 'Invalid JWT format'.     *)
C2_Witness ==
  /\ OnSecure
  /\ HasCredential(jar)
  /\ dotCount(credentialOf(jar)) = 3
  /\ IsMalformedToken(response)

(* The payload segment of a 3-segment token decodes to a JSON object.      *)
payloadOf(token) ==
  LET text == atob(replace(replace(split(token, ".")[2], "-", "+"), "_", "/"))
  IN  IF text.threw THEN [threw |-> TRUE, value |-> Undefined]
      ELSE [threw |-> JSONparse(text.value).threw, value |-> JSONparse(text.value).value]

IsRecord(token) == ~payloadOf(token).threw /\ payloadOf(token).value.t = "obj"

(* C3: a 3-segment token whose payload segment is not valid base64, or     *)
(* whose decoded bytes are not a JSON object (malformed JSON, null, a bare *)
(* number, an array), gets a 500 and never the 200 claims page.            *)
C3_BadPayloadIsDecodeError ==
  (/\ OnSecure
   /\ HasCredential(jar)
   /\ dotCount(credentialOf(jar)) = 2
   /\ ~IsRecord(credentialOf(jar)))
    => response.status = 500

ScriptTag == <<"<", "s", "c", "r", "i", "p", "t", ">">>

(* C4: the claims page never holds the text '<script>' of an email or      *)
(* country claim unescaped, in the sentence, the link text or the href.    *)
C4_ClaimsAreEscaped ==
  (OnSecure /\ response.status = 200) => ~Contains(response.body, ScriptTag)

Letters == Range(UpperLetters) \cup Range(LowerLetters)

(* '/secure/' followed by exactly two ASCII letters in any case.           *)
IsFlagPath(p) ==
  /\ Len(p) = Len(SecurePath) + 3
  /\ SubSeq(p, 1, Len(SecurePath) + 1) = SecurePath \o <<"/">>
  /\ p[Len(p) - 1] \in Letters
  /\ p[Len(p)] \in Letters

codeOf(p) == toUpperCase(SubSeq(p, Len(p) - 1, Len(p)))

(* C5: once fetch has dispatched, '/secure' has gone to handleSecure,      *)
(* '/secure/' plus two letters in any case has gone to handleCountryFlag   *)
(* with the code in capitals, and every other path has got the static 404  *)
(* and no read of the store.                                               *)
C5_RouteDispatch ==
  (pc \notin {"idle", "fetch"})
    => IF request.pathname = SecurePath
         THEN pc = "done" /\ country = <<>> /\ getCalls = 0
                /\ response.status \in {200, 401, 500}
       ELSE IF IsFlagPath(request.pathname)
         THEN country = codeOf(request.pathname)
                /\ country[1] \in Range(UpperLetters)
                /\ country[2] \in Range(UpperLetters)
       ELSE pc = "done" /\ response = defaultResponse /\ getCalls = 0
              /\ country = <<>>

BackLink == "<p><a href=\"/secure\">← Back to authentication info</a></p>"

IsFlagNotFound(r, code) ==
  /\ r.status = 404
  /\ r.contentType = "text/html"
  /\ Contains(r.body, <<"<p>Flag for country code \"">> \o code \o <<"\" not found.</p>">>)
  /\ \E i \in 1..Len(r.body) : r.body[i] = BackLink

storedKeyOf(p) == codeOf(p) \o <<".", "p", "n", "g">>

(* C6: when the store holds no object '{CODE}.png' and the get returns     *)
(* nothing, the flag route answers 404 with a page naming the code in      *)
(* capitals and linking back to /secure; the flag route answers 404 only   *)
(* for an absent object.                                                   *)
C6_AbsentFlagIsNotFound ==
  (pc = "done" /\ storeEvent # "none")
    => /\ (storedKeyOf(request.pathname) \notin DOMAIN FLAGS /\ storeEvent # "getRejected")
            => IsFlagNotFound(response, codeOf(request.pathname))
       /\ (storeEvent # "getNull") => response.status # 404
       /\ (storeEvent = "getNull") => storedKeyOf(request.pathname) \notin DOMAIN FLAGS

(* C6's case: /secure/ZZ with no ZZ.png in the store was answered 404.     *)
C6_Witness ==
  /\ pc = "done"
  /\ storeEvent = "getNull"
  /\ codeOf(request.pathname) = <<"Z", "Z">>
  /\ storedKeyOf(request.pathname) \notin DOMAIN FLAGS
  /\ response.status = 404

(* The text embedded in a page after 'data:image/png;base64,': the run of  *)
(* base64 characters that follows the marker.                              *)
embeddedBase64(body) ==
  LET at == CHOOSE i \in 1..Len(body) : body[i] = "data:image/png;base64,"
      isB64(ch) == IsBase64Digit(ch) \/ ch = "="
      stop == CHOOSE j \in (at + 1)..(Len(body) + 1) :
                /\ j = Len(body) + 1 \/ ~isB64(body[j])
                /\ \A k \in (at + 1)..(j - 1) : isB64(body[k])
  IN  SubSeq(body, at + 1, stop - 1)

(* Base64 decoding by the book (RFC 4648): groups of four characters, the  *)
(* last one padded, every group three bytes less its padding.              *)
decodeBase64(text) ==
  LET pad == Cardinality({i \in 1..Len(text) : text[i] = "="})
      value(ch) == IF ch = "=" THEN 0 ELSE sextet(ch)
      group(g) == value(text[4 * g + 1]) * 262144 + value(text[4 * g + 2]) * 4096
                  + value(text[4 * g + 3]) * 64 + value(text[4 * g + 4])
      byte(k) == CASE k % 3 = 0 -> group(k \div 3) \div 65536
                   [] k % 3 = 1 -> (group(k \div 3) \div 256) % 256
                   [] OTHER -> group(k \div 3) % 256
  IN  IF Len(text) % 4 # 0 THEN [ok |-> FALSE, bytes |-> <<>>]
      ELSE [ok |-> TRUE,
            bytes |-> [k \in 1..(3 * (Len(text) \div 4) - pad) |-> byte(k - 1)]]

(* C7: the base64 text embedded in the page returned for /secure/{CODE}    *)
(* decodes back to exactly the bytes stored under '{CODE}.png'.            *)
C7_EmbeddedImageRoundTrip ==
  (pc = "done" /\ storeEvent = "bodyRead")
    => /\ response.status = 200
       /\ decodeBase64(embeddedBase64(response.body))
            = [ok |-> TRUE, bytes |-> FLAGS[storedKeyOf(request.pathname)]]

(* C7's case: a page was returned for a stored blob of three bytes, among  *)
(* them 0 and bytes above 127.                                             *)
C7_Witness ==
  /\ pc = "done"
  /\ storeEvent = "bodyRead"
  /\ FLAGS[storedKeyOf(request.pathname)] = <<255, 0, 128>>
  /\ embeddedBase64(response.body) = <<"/", "w", "C", "A">>

IsHtmlDocument(body) ==
  \A piece \in {"<!DOCTYPE html>", "<head>", "<meta charset=\"UTF-8\">",
                "<meta name=\"viewport\" content=\"width=device-width, initial-scale=1.0\">",
                "<title>", "</title>", "<style>", "</style>", "</head>", "<body>",
                "</body>", "</html>"} :
    \E i \in 1..Len(body) : body[i] = piece

(* C8: every response, on every route and outcome, the 404 of an unknown   *)
(* path included, has Content-Type text/html and a body that is a full     *)
(* HTML document.                                                          *)
C8_EveryResponseIsHtml ==
  (pc = "done") => (response.contentType = "text/html" /\ IsHtmlDocument(response.body))

hasMember(object, key) == \E i \in 1..Len(object.v) : object.v[i].k = key

(* The claims page as C9 describes it: a field's value when the field is   *)
(* present, 'Unknown' only when it is absent.                              *)
expectedClaims(object) ==
  LET shown(key) == IF hasMember(object, key) THEN toText(getProperty(object, key))
                    ELSE Unknown
      email == shown(<<"e", "m", "a", "i", "l">>)
      where == shown(<<"c", "o", "u", "n", "t", "r", "y">>)
      time == IF hasMember(object, <<"i", "a", "t">>)
              THEN toUTCString(ToNumber(getProperty(object, <<"i", "a", "t">>)))
              ELSE Unknown
  IN  <<"<p>">> \o email \o <<" authenticated at ">> \o time \o <<" from ">>
      \o <<"<a href=\"/secure/">> \o where \o <<"\">">> \o where \o <<"</a>", "</p>">>

(* C9: for a payload that decodes to a record, the page is a 200 showing   *)
(* the email when present, the country when present and the UTC date of    *)
(* iat when present (iat = 0 included), and 'Unknown' only for an absent   *)
(* field.                                                                  *)
C9_PresentFieldsAreShown ==
  (/\ OnSecure
   /\ HasCredential(jar)
   /\ dotCount(credentialOf(jar)) = 2
   /\ IsRecord(credentialOf(jar)))
    => /\ response.status = 200
       /\ Contains(response.body, expectedClaims(payloadOf(credentialOf(jar)).value))

(* C10: when the store's get or the read of the object's body fails, the   *)
(* flag route answers 500 with a message that does not hold the text of    *)
(* the store's exception, after at most one get.                           *)
C10_StoreErrorIsGeneric ==
  (pc = "done" /\ storeEvent \in {"getRejected", "bodyRejected"})
    => /\ response.status = 500
       /\ getCalls <= 1
       /\ ~Contains(response.body, storeError.message)

====
